---- MODULE Spec2Model ----
(***************************************************************************)
(* Model of src/discord_rpc_ipc.py: the Discord local RPC client.          *)
(*                                                                         *)
(* One behaviour is one run of run_rpc_flow(): endpoint discovery and      *)
(* connect, the handshake exchange, the GET_CHANNELS command and the       *)
(* nonce-correlated response loop under its 5 s deadline, and the finally  *)
(* block that closes the connection.                                       *)
(*                                                                         *)
(* Time is counted in ticks of 0.1 s (the argument of time.sleep on line   *)
(* 211); time passes only inside blocking calls (a read waiting for the    *)
(* peer, the sleep).  The peer is the environment: each read of the byte   *)
(* stream returns what the peer made available, chosen nondeterministically*)
(* among the outcomes a stream read has (all n bytes, fewer than n bytes,  *)
(* no byte because the peer closed, an exception).                         *)
(*                                                                         *)
(* A JSON payload is abstracted to the fields the code consults: whether   *)
(* it is valid JSON, whether it is an object, and for an object its cmd,   *)
(* nonce, evt and the shape of its data.  Payloads are compact JSON texts  *)
(* of objects or arrays, so a strict prefix of a payload is not valid JSON.*)
(***************************************************************************)
EXTENDS Integers, Sequences, FiniteSets, TLC

VARIABLES
    CLIENT_ID,        \* line 18: os.getenv('CLIENT_ID')
    TARGET_GUILD_ID,  \* line 20: os.getenv('TARGET_GUILD_ID')
    input,        \* the arguments of the function under study (codec and path resolver)
    output,       \* its results
    discards,     \* number of frames the response loop ignored (lines 209-211)
    pc,           \* position of the program
    phase,        \* "handshake" or "loop": which call of receive_rpc_message is running
    conn,         \* "none", "open", "closed": the connection object
    closeCount,   \* number of times the finally block closed the connection
    ioAfterClose, \* TRUE once a read or write was issued on a closed connection
    connects,     \* number of connect attempts made by connect_ipc
    writes,       \* opcodes of the frames written so far, in order
    now,          \* time.time(), in ticks of 0.1 s
    timeout,      \* the local variable timeout of line 184 (-1 before it is set)
    response,     \* the local variable response: result of receive_rpc_message
    delivery,     \* how the peer delivered the bytes of the last read
    hsDelivered,  \* what the peer delivered as first frame: "unread", "ready", "notready"
    firstMatch,   \* data of the first frame delivered in the loop that matches nonce and cmd
    eofAt,        \* time at which a read in the loop met the end of the stream (-1: never)
    outcome,      \* how the session ended, as the code reports it
    message,      \* the peer's error message reported with outcome "cmd_error"
    result        \* the channels value of line 202

vars == <<CLIENT_ID, TARGET_GUILD_ID, input, output, discards, pc, phase, conn, closeCount, ioAfterClose, connects, writes, now, timeout,
          response, delivery, hsDelivered, firstMatch, eofAt, outcome, message, result>>

----------------------------------------------------------------------------
(* Program constants *)

\* line 184: timeout = time.time() + 5, in ticks of 0.1 s
TimeoutTicks == 50
\* line 211: time.sleep(0.1), one tick
PollTicks == 1
\* line 60: for i in range(10)
ScanCount == 10

(* Bounds of the model *)

\* longest wait of the handshake read, in ticks
MaxHandshakeWait == 1
\* how far past the deadline a blocked read is followed, in ticks
MaxOvershoot == 2
\* number of socket files present in the file systems tried by Connect
MaxFiles == 2
\* number of members of the dicts given to encode_message
MaxKeys == 2

----------------------------------------------------------------------------
(* JSON payloads as the code sees them *)

Nonce == "N"    \* line 171: the value of uuid.uuid4().hex of this session

Cmds == {"DISPATCH", "GET_CHANNELS", "OTHER", "absent"}
Nonces == {Nonce, "X", "absent"}
Evts == {"ERROR", "absent"}
\* shapes of the data field: absent; an object with a message; an empty object;
\* a list of channel objects; a JSON value that is neither an object nor a
\* list (null, a number, a non-empty string)
DataShapes == {"absent", "msgobj", "emptyobj", "channels", "scalar"}

\* opcodes of the frames the peer sends: 1 (FRAME) and 2 (CLOSE)
Opcodes == {1, 2}

NoneResponse ==
    [kind |-> "none", opcode |-> 1, cmd |-> "absent", nonce |-> "absent", evt |-> "absent",
     data |-> "absent"]

NonObject ==
    [kind |-> "nonobject", opcode |-> 1, cmd |-> "absent", nonce |-> "absent", evt |-> "absent",
     data |-> "absent"]

ObjectFrames ==
    [kind : {"object"}, opcode : Opcodes, cmd : Cmds, nonce : Nonces, evt : Evts,
     data : DataShapes]

\* what json.loads can return for a payload that is valid JSON
JsonValues == ObjectFrames \cup {NonObject}

\* the first frame the peer sends: any decoded value
FirstFrames == JsonValues

\* the frames the peer sends after the command, drawn with opcode 1; a frame
\* that does not answer the command (another nonce or cmd) is drawn without data
LoopFrames ==
    {v \in JsonValues :
        /\ v.opcode = 1
        /\ (v.nonce = Nonce /\ v.cmd = "GET_CHANNELS") \/ v.data = "absent"}

\* the correlation test without the command name
Matches_NonceOnly(d) == d.nonce = Nonce

\* data.get('nonce') == nonce and data.get('cmd') == 'GET_CHANNELS'  (line 193)
Matches(d) == d.nonce = Nonce /\ d.cmd = "GET_CHANNELS"

\* data.get('data', {}).get('message')  (line 198): the message, "None", or
\* "raise" when the data field is not an object (AttributeError)
ErrorMessageOf(d) ==
    CASE d.data = "absent"   -> "None"
      [] d.data = "msgobj"   -> "no permission"
      [] d.data = "emptyobj" -> "None"
      [] OTHER               -> "raise"

\* lines 202-205: channels = data.get('data', []), then channel.get(...) for each
\* element; TRUE when the iteration raises (data is no iterable of objects)
FormatRaises(d) == d.data \in {"msgobj", "scalar"}

\* line 202 reading a key the frame does not have: always the default
ChannelsOf_Default(d) == "[]"

\* the value bound to channels on line 202
ChannelsOf(d) == IF d.data = "absent" THEN "[]" ELSE d.data

----------------------------------------------------------------------------
(* Configuration: lines 18-30 *)

\* os.getenv gives None for an unset variable, else its value
ConfigValues == {"None", "", "123"}

\* the configuration test reading the client identifier only
ConfigMissing_ClientOnly == CLIENT_ID \in {"None", ""}

\* line 28: not (CLIENT_ID and TARGET_GUILD_ID)
ConfigMissing == CLIENT_ID \in {"None", ""} \/ TARGET_GUILD_ID \in {"None", ""}

\* placeholder of input and output while no function is under study
Unused == [use |-> "none"]

globals == <<CLIENT_ID, TARGET_GUILD_ID, input, output>>

----------------------------------------------------------------------------
(* Endpoint discovery: get_ipc_path *)

EnvVars == <<"XDG_RUNTIME_DIR", "TMPDIR", "TMP", "TEMP">>
Dirs == {"/run/user", "/var/tmp", "/tmp"}
Platforms == {"win32", "linux"}

NoPath == [dir |-> "", index |-> -1]

\* os.environ.get gives None for an unset variable; None and "" are false
Falsy == {"None", ""}

\* the or-chain with TMPDIR consulted before XDG_RUNTIME_DIR
TempDir_TmpdirFirst(environ) ==
    IF environ["TMPDIR"] \notin Falsy THEN environ["TMPDIR"]
    ELSE IF environ["XDG_RUNTIME_DIR"] \notin Falsy THEN environ["XDG_RUNTIME_DIR"]
    ELSE IF environ["TMP"] \notin Falsy THEN environ["TMP"]
    ELSE IF environ["TEMP"] \notin Falsy THEN environ["TEMP"]
    ELSE "/tmp"

\* line 57: the or-chain over the environment
TempDir(environ) ==
    IF environ["XDG_RUNTIME_DIR"] \notin Falsy THEN environ["XDG_RUNTIME_DIR"]
    ELSE IF environ["TMPDIR"] \notin Falsy THEN environ["TMPDIR"]
    ELSE IF environ["TMP"] \notin Falsy THEN environ["TMP"]
    ELSE IF environ["TEMP"] \notin Falsy THEN environ["TEMP"]
    ELSE "/tmp"

\* the scan returning index 0 of the directory without testing that it exists
get_ipc_path_NoExistsTest(platform, environ, exists) ==
    IF platform = "win32" THEN [dir |-> "pipe", index |-> 0]
    ELSE [dir |-> TempDir(environ), index |-> 0]

\* lines 50-64: exists is the set of <<dir, i>> for which discord-ipc-<i> exists
get_ipc_path(platform, environ, exists) ==
    IF platform = "win32" THEN [dir |-> "pipe", index |-> 0]
    ELSE LET temp_dir == TempDir(environ)
             found == {i \in 0..(ScanCount - 1) : <<temp_dir, i>> \in exists}
         IN IF found = {} THEN NoPath
            ELSE [dir |-> temp_dir,
                  index |-> CHOOSE i \in found : \A j \in found : i <= j]

Environs == [{EnvVars[k] : k \in 1..4} -> Dirs \cup Falsy]
\* indices of the discord-ipc-<i> files that may exist; 10 is outside the scan
FileIndices == {0, 3, 9, 10}
FileSystems ==
    {fs \in SUBSET (Dirs \X FileIndices) : Cardinality(fs) <= MaxFiles}

----------------------------------------------------------------------------
SessionInit ==
    /\ discards = 0
    /\ phase = "none"
    /\ conn = "none"
    /\ closeCount = 0
    /\ ioAfterClose = FALSE
    /\ connects = 0
    /\ writes = <<>>
    /\ now = 0
    /\ timeout = -1
    /\ response = NoneResponse
    /\ delivery = "none"
    /\ hsDelivered = "unread"
    /\ firstMatch = NoneResponse
    /\ eofAt = -1
    /\ outcome = "none"
    /\ message = "none"
    /\ result = "none"

\* the state after lines 18-20: the two identifiers read from the environment
Init ==
    /\ CLIENT_ID \in ConfigValues
    /\ TARGET_GUILD_ID \in ConfigValues
    /\ input = Unused
    /\ output = Unused
    /\ pc = "config"
    /\ SessionInit

\* lines 28-30 and 223-225: sys.exit(1) when an identifier is missing or empty,
\* else the main guard calls run_rpc_flow
CheckConfig ==
    /\ pc = "config"
    /\ IF ConfigMissing
       THEN outcome' = "config_error" /\ pc' = "exit"
       ELSE pc' = "start" /\ UNCHANGED outcome
    /\ UNCHANGED <<globals, discards, phase, conn, closeCount, ioAfterClose, connects,
                   writes, now, timeout, response, delivery, hsDelivered, firstMatch,
                   eofAt, message, result>>

\* connect_ipc (66-102) and lines 147-149 on one platform, environment and
\* file system: discovery, then the connect attempt
ConnectWith(platform, environ, exists) ==
    LET path == get_ipc_path(platform, environ, exists)
    IN IF path = NoPath
       THEN /\ outcome' = "no_path"
            /\ pc' = "done"
            /\ UNCHANGED <<conn, connects>>
       ELSE /\ connects' = connects + 1
            /\ \E ok \in BOOLEAN :
                 IF ok
                 THEN /\ conn' = "open"
                      /\ pc' = "hs_send"
                      /\ UNCHANGED outcome
                 ELSE /\ outcome' = "connect_error"
                      /\ pc' = "done"
                      /\ UNCHANGED conn

\* lines 147-149 with connect_ipc (66-102), the platform, the environment and
\* the file system being those the program finds
Connect ==
    /\ pc = "start"
    /\ UNCHANGED <<globals, discards>>
    /\ \E platform \in Platforms, environ \in Environs, exists \in FileSystems :
         ConnectWith(platform, environ, exists)
    /\ UNCHANGED <<phase, closeCount, ioAfterClose, writes, now, timeout, response,
                   delivery, hsDelivered, firstMatch, eofAt, message, result>>

\* a return that does not pass through the finally clause
Leave_NoFinally(o) == outcome' = o /\ pc' = "done"

\* a return or an exception inside the try block (151-213): the outcome is
\* reported and control passes to the finally clause (215)
Leave(o) == outcome' = o /\ pc' = "finally"

\* a send that writes the frame a second time (a re-send)
Write_Twice(opcode, nextPc) ==
    /\ ioAfterClose' = (ioAfterClose \/ conn # "open")
    /\ writes' = Append(Append(writes, opcode), opcode)
    /\ pc' = nextPc
    /\ UNCHANGED outcome

\* send_rpc_message (104-112): sendall either sends the whole frame or raises
Write(opcode, nextPc) ==
    /\ ioAfterClose' = (ioAfterClose \/ conn # "open")
    /\ \E ok \in BOOLEAN :
         IF ok
         THEN /\ writes' = Append(writes, opcode)
              /\ pc' = nextPc
              /\ UNCHANGED outcome
         ELSE /\ Leave("exception")
              /\ UNCHANGED writes

\* lines 152-155: the HANDSHAKE frame, opcode 0
SendHandshake ==
    /\ pc = "hs_send"
    /\ UNCHANGED <<globals, discards>>
    /\ Write(0, "recv_hdr")
    /\ phase' = "handshake"
    /\ UNCHANGED <<conn, closeCount, connects, now, timeout, response, delivery,
                   hsDelivered, firstMatch, eofAt, message, result>>

\* time passing while a read of receive_rpc_message waits for the peer: the
\* socket has no timeout, so the wait has no bound in the code
Tick ==
    /\ pc \in {"recv_hdr", "recv_pay"}
    /\ UNCHANGED <<globals, discards>>
    /\ IF phase = "handshake" THEN now < MaxHandshakeWait
                              ELSE now < timeout + MaxOvershoot
    /\ now' = now + 1
    /\ UNCHANGED <<pc, phase, conn, closeCount, ioAfterClose, connects, writes,
                   timeout, response, delivery, hsDelivered, firstMatch, eofAt,
                   outcome, message, result>>

\* where receive_rpc_message returns to: line 159 or line 187
ReturnPoint == IF phase = "handshake" THEN "hs_check" ELSE "loop_check"

\* receive_rpc_message returns: v is its value, d how the peer delivered the bytes
Return(v, d) ==
    /\ response' = v
    /\ delivery' = d
    /\ pc' = ReturnPoint
    /\ hsDelivered' =
         IF phase # "handshake" THEN hsDelivered
         ELSE IF d = "full" /\ v.kind = "object" /\ v.cmd = "DISPATCH"
              THEN "ready" ELSE "notready"
    /\ firstMatch' =
         IF phase = "loop" /\ firstMatch = NoneResponse /\ d = "full"
            /\ v.kind = "object" /\ v.nonce = Nonce /\ v.cmd = "GET_CHANNELS"
         THEN v ELSE firstMatch
    /\ eofAt' =
         IF phase = "loop" /\ d \in {"eof", "short_closed"} THEN now ELSE eofAt

\* lines 116-126: recv(8); fewer than 8 bytes, or an exception (139-141), is None
RecvHeader ==
    /\ pc = "recv_hdr"
    /\ UNCHANGED <<globals, discards>>
    /\ ioAfterClose' = (ioAfterClose \/ conn # "open")
    /\ \E d \in {"full", "short_open", "short_closed", "eof", "error"} :
         IF d = "full"
         THEN /\ pc' = "recv_pay"
              /\ UNCHANGED <<response, delivery, hsDelivered, firstMatch, eofAt>>
         ELSE Return(NoneResponse, d)
    /\ UNCHANGED <<phase, conn, closeCount, connects, writes, now, timeout, outcome,
                   message, result>>

\* lines 128-141: recv(length) and json.loads; a short or empty payload, invalid
\* JSON and an exception of recv all end in the except clause, which returns None
RecvPayload ==
    /\ pc = "recv_pay"
    /\ UNCHANGED <<globals, discards>>
    /\ ioAfterClose' = (ioAfterClose \/ conn # "open")
    /\ \E d \in {"full", "malformed", "short_open", "short_closed", "eof", "error"} :
         IF d = "full"
         THEN \E v \in (IF phase = "handshake" THEN FirstFrames ELSE LoopFrames) :
                 Return(v, d)
         ELSE Return(NoneResponse, d)
    /\ UNCHANGED <<phase, conn, closeCount, connects, writes, now, timeout, outcome,
                   message, result>>

\* the handshake check without the test of the cmd field
HandshakeRejected_NoneOnly(r) == r.kind = "none"

\* line 159: response is None or response[1].get('cmd') != 'DISPATCH'
HandshakeRejected(r) == r.kind = "none" \/ r.cmd # "DISPATCH"

\* lines 158-163: the handshake check; .get on a payload that is no object, and
\* .get on a data field that is no object (line 163), raise AttributeError
HandshakeCheck ==
    /\ pc = "hs_check"
    /\ UNCHANGED <<globals, discards>>
    /\ IF response.kind = "nonobject"
       THEN Leave("exception")
       ELSE IF HandshakeRejected(response)
       THEN Leave("handshake_error")
       ELSE IF response.data \in {"channels", "scalar"}
       THEN Leave("exception")
       ELSE pc' = "cmd_send" /\ UNCHANGED outcome
    /\ UNCHANGED <<phase, conn, closeCount, ioAfterClose, connects, writes, now,
                   timeout, response, delivery, hsDelivered, firstMatch, eofAt,
                   message, result>>

\* lines 171-184: the GET_CHANNELS frame, opcode 1, then the deadline
SendCommand ==
    /\ pc = "cmd_send"
    /\ UNCHANGED <<globals, discards>>
    /\ Write(1, "loop_test")
    /\ timeout' = IF pc' = "loop_test" THEN now + TimeoutTicks ELSE timeout
    /\ UNCHANGED <<phase, conn, closeCount, connects, now, response, delivery,
                   hsDelivered, firstMatch, eofAt, message, result>>

\* the loop test with the deadline itself still inside the loop
DeadlineOpen_Inclusive == now <= timeout

\* line 185: while time.time() < timeout
DeadlineOpen == now < timeout

\* lines 185-186 and 213: the loop test; the read starts, or the timeout report
LoopTest ==
    /\ pc = "loop_test"
    /\ UNCHANGED <<globals, discards>>
    /\ IF DeadlineOpen
       THEN pc' = "recv_hdr" /\ phase' = "loop" /\ UNCHANGED outcome
       ELSE Leave("timeout") /\ UNCHANGED phase
    /\ UNCHANGED <<conn, closeCount, ioAfterClose, connects, writes, now, timeout,
                   response, delivery, hsDelivered, firstMatch, eofAt, message,
                   result>>

\* None handled by going round the loop again instead of returning
LoopOnNone_Retry ==
    /\ pc' = "sleep"
    /\ UNCHANGED <<outcome, message, result, discards>>

\* lines 187-190: receive_rpc_message returned None
LoopOnNone ==
    /\ Leave("conn_closed")
    /\ UNCHANGED <<message, result, discards>>

\* lines 196-200: the matching frame carries evt ERROR
LoopOnError ==
    IF ErrorMessageOf(response) = "raise"
    THEN /\ Leave("exception")
         /\ UNCHANGED <<message, result, discards>>
    ELSE /\ Leave("cmd_error")
         /\ message' = ErrorMessageOf(response)
         /\ UNCHANGED <<result, discards>>

\* the matching frame handled with a second deadline test after the read
LoopOnResult_DeadlineChecked ==
    IF now >= timeout
    THEN /\ Leave("timeout")
         /\ UNCHANGED <<message, result, discards>>
    ELSE /\ result' = ChannelsOf(response)
         /\ Leave(IF FormatRaises(response) THEN "exception" ELSE "result")
         /\ UNCHANGED <<message, discards>>

\* lines 202-207: the matching frame carries the channels
LoopOnResult ==
    /\ result' = ChannelsOf(response)
    /\ Leave(IF FormatRaises(response) THEN "exception" ELSE "result")
    /\ UNCHANGED <<message, discards>>

\* lines 209-211: any other frame is ignored
LoopDiscard ==
    /\ pc' = "sleep"
    /\ discards' = discards + 1
    /\ UNCHANGED <<outcome, message, result>>

\* lines 187-211: one pass of the loop body on the frame just read; .get on a
\* payload that is no object raises AttributeError (line 193)
LoopCheck ==
    /\ pc = "loop_check"
    /\ UNCHANGED globals
    /\ IF response.kind = "none" THEN LoopOnNone
       ELSE IF response.kind = "nonobject"
       THEN Leave("exception") /\ UNCHANGED <<message, result, discards>>
       ELSE IF Matches(response)
       THEN IF response.evt = "ERROR" THEN LoopOnError ELSE LoopOnResult
       ELSE LoopDiscard
    /\ UNCHANGED <<phase, conn, closeCount, ioAfterClose, connects, writes, now,
                   timeout, response, delivery, hsDelivered, firstMatch, eofAt>>

\* line 211: time.sleep(0.1), then back to the loop test
Sleep ==
    /\ pc = "sleep"
    /\ UNCHANGED <<globals, discards>>
    /\ now' = now + PollTicks
    /\ pc' = "loop_test"
    /\ UNCHANGED <<phase, conn, closeCount, ioAfterClose, connects, writes, timeout,
                   response, delivery, hsDelivered, firstMatch, eofAt, outcome,
                   message, result>>

\* lines 215-221: the finally block closes the connection, then run_rpc_flow
\* returns (or the pending exception propagates)
Finally ==
    /\ pc = "finally"
    /\ UNCHANGED <<globals, discards>>
    /\ conn' = "closed"
    /\ closeCount' = closeCount + 1
    /\ pc' = "done"
    /\ UNCHANGED <<phase, ioAfterClose, connects, writes, now, timeout, response,
                   delivery, hsDelivered, firstMatch, eofAt, outcome, message,
                   result>>

Next ==
    \/ CheckConfig
    \/ Connect
    \/ SendHandshake
    \/ Tick
    \/ RecvHeader
    \/ RecvPayload
    \/ HandshakeCheck
    \/ SendCommand
    \/ LoopTest
    \/ LoopCheck
    \/ Sleep
    \/ Finally

Spec == Init /\ [][Next]_vars

----------------------------------------------------------------------------
(* The path resolver on given inputs: the platform, the environment and the  *)
(* file system are fixed at the start and kept in input; output keeps the    *)
(* value get_ipc_path returned to connect_ipc (line 68).                     *)

InitPath ==
    /\ CLIENT_ID = "123"
    /\ TARGET_GUILD_ID = "123"
    /\ input \in [use : {"path"}, platform : Platforms, environ : Environs,
                  exists : FileSystems]
    /\ output = Unused
    /\ pc = "start"
    /\ SessionInit

ConnectGiven ==
    /\ pc = "start"
    /\ ConnectWith(input.platform, input.environ, input.exists)
    /\ output' = [use |-> "path",
                  path |-> get_ipc_path(input.platform, input.environ, input.exists)]
    /\ UNCHANGED <<CLIENT_ID, TARGET_GUILD_ID, input, discards>>
    /\ UNCHANGED <<phase, closeCount, ioAfterClose, writes, now, timeout, response,
                   delivery, hsDelivered, firstMatch, eofAt, message, result>>

NextPath ==
    \/ ConnectGiven
    \/ SendHandshake
    \/ Finally

SpecPath == InitPath /\ [][NextPath]_vars

----------------------------------------------------------------------------
(* Properties *)

InLoopRead == pc \in {"recv_hdr", "recv_pay"} /\ phase = "loop"
Ended == pc \in {"finally", "done"}

\* C1: a connection returned by connect_ipc is closed exactly once on every exit
\* path, the close is the last thing before run_rpc_flow returns, and no read
\* or write is issued on the connection after the close.
C1_ClosedExactlyOnce ==
    /\ closeCount <= 1
    /\ ~ioAfterClose
    /\ (conn = "none") => (closeCount = 0)
    /\ (conn = "closed") => (pc = "done" /\ closeCount = 1)
    /\ (pc = "done" /\ conn # "none") => (conn = "closed" /\ closeCount = 1)

C1_Witness ==
    pc = "done" /\ conn = "closed" /\ closeCount = 1 /\ outcome = "timeout"

\* C2: when the first frame read after the HANDSHAKE write is not a ready frame
\* (another cmd, a closed connection, a frame that cannot be decoded), no
\* COMMAND frame is written, the handshake is not sent again, the session ends
\* without entering the response loop, and the connection is closed.
C2_HandshakeFailureTerminal ==
    (hsDelivered = "notready") =>
        /\ writes = <<0>>
        /\ pc \in {"hs_check", "finally", "done"}
        /\ timeout = -1
        /\ (pc = "done") => (conn = "closed" /\ closeCount = 1)

C2_Witness ==
    /\ hsDelivered = "notready" /\ pc = "done" /\ conn = "closed"
    /\ response.kind = "object" /\ response.cmd = "OTHER"

C4_MatchingErrorIsCommandError ==
    (firstMatch # NoneResponse /\ firstMatch.evt = "ERROR" /\ Ended) =>
        /\ outcome = "cmd_error"
        /\ (firstMatch.data = "msgobj") => (message = "no permission")
        /\ writes = <<0, 1>>

C6_ClosedDuringReadEndsLoop ==
    (eofAt # -1) =>
        /\ now = eofAt
        /\ pc \in {"loop_check", "finally", "done"}
        /\ response.kind = "none"
        /\ Ended => (outcome = "conn_closed")
        /\ (pc = "loop_check") => (outcome = "none")

C6_Witness ==
    eofAt # -1 /\ pc = "done" /\ outcome = "conn_closed" /\ eofAt < timeout

\* C7: the loop test failing with no matching frame read gives the timeout
\* outcome, and the timeout outcome is given only then: the deadline has
\* passed, no matching frame was read and no read met a closed connection.
C7_TimeoutIffDeadline ==
    [][ /\ (pc = "loop_test" /\ now >= timeout /\ firstMatch = NoneResponse)
           => (outcome' = "timeout" /\ pc' = "finally")
        /\ (outcome' = "timeout")
           => ( /\ timeout' # -1 /\ now' >= timeout'
                /\ firstMatch' = NoneResponse /\ eofAt' = -1
                /\ (outcome = "timeout" \/ pc = "loop_test") )
      ]_vars

C7_Witness ==
    pc = "done" /\ outcome = "timeout" /\ now >= timeout /\ delivery = "full"

\* C8: the response loop returns control once the deadline has passed, plus at
\* most one poll interval, whatever the peer does; a single blocking read cannot
\* hold the loop past the deadline.
C8_LoopReturnsByDeadline ==
    (phase = "loop" /\ ~Ended) => (now <= timeout + PollTicks)

\* C9: a frame delivered in several pieces with the connection still open is
\* received as one complete frame: the read is never reported as None (a closed
\* connection or a failed frame).
C9_PartialDeliveryCompletes ==
    (pc \in {"hs_check", "loop_check"} /\ delivery = "short_open")
        => (response.kind # "none")

\* C10: each failure cause ends the session with its own outcome: a malformed
\* frame, a connection closed during a read, a handshake failure, a command
\* error reported by the peer, a timeout, a discovery miss and a connect failure
\* are told apart by what run_rpc_flow reports.
FailureCause ==
    IF conn = "none" /\ connects = 0 THEN "discovery"
    ELSE IF conn = "none" THEN "connect"
    ELSE IF hsDelivered = "notready" THEN "handshake"
    ELSE IF phase = "loop" /\ delivery = "malformed" THEN "framing"
    ELSE IF phase = "loop" /\ delivery = "eof" THEN "closed"
    ELSE IF outcome = "cmd_error" THEN "command"
    ELSE IF outcome = "timeout" THEN "timeout"
    ELSE "other"

TypedFailure(cause) ==
    CASE cause = "discovery" -> "no_path"
      [] cause = "connect"   -> "connect_error"
      [] cause = "handshake" -> "handshake_error"
      [] cause = "framing"   -> "framing_error"
      [] cause = "closed"    -> "conn_closed"
      [] cause = "command"   -> "cmd_error"
      [] cause = "timeout"   -> "timeout"

C10_DistinctOutcomes ==
    (pc = "done" /\ FailureCause # "other" /\ outcome # "exception")
        => (outcome = TypedFailure(FailureCause))
\* C11: the frames written in a session are, in order, one HANDSHAKE frame
\* (opcode 0) as the first write, then at most one COMMAND frame (opcode 1),
\* written only after the handshake was accepted; no other opcode is written,
\* none twice, and no read happens before the HANDSHAKE write.
C11_WriteOrder ==
    /\ writes \in {<<>>, <<0>>, <<0, 1>>}
    /\ (Len(writes) = 2) => (hsDelivered = "ready")
    /\ (pc \in {"recv_hdr", "recv_pay", "hs_check", "cmd_send"}) => (Len(writes) >= 1)
    /\ (phase = "loop") => (writes = <<0, 1>>)
    /\ (pc = "done" /\ conn # "none" /\ outcome # "exception") => (Len(writes) >= 1)

C11_Witness ==
    pc = "done" /\ writes = <<0, 1>> /\ outcome = "result"
\* C18: when the client identifier or the target identifier is missing or
\* empty, the program stops with the configuration failure before
\* run_rpc_flow is called: no discovery, no connect, no frame written.
C18_ConfigFailsFast ==
    ( /\ pc # "config"
      /\ (CLIENT_ID \in {"None", ""} \/ TARGET_GUILD_ID \in {"None", ""}) )
    => ( /\ pc = "exit" /\ outcome = "config_error"
         /\ connects = 0 /\ conn = "none" /\ writes = <<>> /\ closeCount = 0
         /\ phase = "none" /\ ~ioAfterClose )

C18_Witness ==
    pc = "exit" /\ CLIENT_ID = "123" /\ TARGET_GUILD_ID = "" /\ outcome = "config_error"
\* C16: the handshake is accepted (the session goes on to send the command)
\* if and only if the first frame read after the HANDSHAKE write decodes and
\* its cmd field is DISPATCH, whatever its opcode, its evt and its data.
C16_ReadyIffDispatch ==
    [][ (pc = "hs_check") => ((pc' = "cmd_send") <=> (hsDelivered = "ready")) ]_vars
C20_AtMostFiftyDiscards ==
    /\ discards * PollTicks <= TimeoutTicks
    /\ (pc = "sleep") =>
          ( /\ discards >= 1 /\ response.kind = "object"
            /\ (response.nonce # Nonce \/ response.cmd # "GET_CHANNELS") )
    /\ (timeout # -1) =>
          (now - (timeout - TimeoutTicks)
             >= PollTicks * (IF pc = "sleep" THEN discards - 1 ELSE discards))
    /\ (timeout = -1) => (discards = 0)

C20_Witness ==
    /\ pc = "done" /\ outcome = "timeout"
    /\ discards * PollTicks = TimeoutTicks /\ now = timeout

----------------------------------------------------------------------------
(* Endpoint discovery, checked under SpecPath.                              *)

\* the directories named by the set, non-empty variables, or the fallback
CandidateDirs(environ) ==
    LET named == {environ[EnvVars[k]] : k \in 1..4} \ Falsy
    IN IF named = {} THEN {"/tmp"} ELSE named

Scanned == 0..(ScanCount - 1)

Resolved == pc # "start" /\ input.platform = "linux"

\* C12: when no candidate directory holds a file discord-ipc-0 .. discord-ipc-9,
\* discovery returns no path and the session ends there: no connect attempt,
\* no connection, nothing written, nothing closed.
C12_DiscoveryMiss ==
    (/\ Resolved
     /\ \A d \in CandidateDirs(input.environ), i \in Scanned :
            <<d, i>> \notin input.exists)
    => (/\ output.path = NoPath
        /\ outcome = "no_path" /\ pc = "done"
        /\ connects = 0 /\ conn = "none"
        /\ writes = <<>> /\ closeCount = 0 /\ ~ioAfterClose)

C12_Witness ==
    /\ Resolved /\ pc = "done" /\ outcome = "no_path"
    /\ input.exists # {}
    /\ \A d \in Dirs, i \in Scanned : <<d, i>> \notin input.exists

\* C13: whenever some candidate directory holds a file discord-ipc-<i> with
\* i in 0..9, discovery returns the path of an existing file.
C13_AnyCandidateDirSuffices ==
    (/\ Resolved
     /\ \E d \in CandidateDirs(input.environ), i \in Scanned :
            <<d, i>> \in input.exists)
    => (/\ output.path # NoPath
        /\ <<output.path.dir, output.path.index>> \in input.exists)

\* C17: get_ipc_path looks at one directory only, the value of the first set
\* and non-empty variable among XDG_RUNTIME_DIR, TMPDIR, TMP, TEMP, else /tmp;
\* it returns the lowest index in 0..9 whose file exists there, and no path
\* exactly when none of the ten exists there.
C17_OneDirectoryLowestIndex ==
    Resolved =>
        LET order == <<"XDG_RUNTIME_DIR", "TMPDIR", "TMP", "TEMP">>
            set == {k \in 1..4 : input.environ[order[k]] \notin {"None", ""}}
            first == CHOOSE k \in set : \A j \in set : k <= j
            d == IF set = {} THEN "/tmp" ELSE input.environ[order[first]]
            here == {i \in 0..9 : <<d, i>> \in input.exists}
        IN /\ (output.path = NoPath) <=> (here = {})
           /\ (outcome = "no_path") <=> (here = {})
           /\ (here # {}) =>
                /\ output.path.dir = d
                /\ output.path.index \in here
                /\ \A j \in here : output.path.index <= j

C17_Witness ==
    /\ Resolved
    /\ input.environ["XDG_RUNTIME_DIR"] = "None"
    /\ input.environ["TMPDIR"] = ""
    /\ input.environ["TMP"] = "/var/tmp"
    /\ input.environ["TEMP"] = "/run/user"
    /\ input.exists = {<<"/var/tmp", 9>>, <<"/run/user", 0>>}
    /\ output.path = [dir |-> "/var/tmp", index |-> 9]

----------------------------------------------------------------------------
(* encode_message and decode_message (lines 34-46) on bytes.                *)
(* A byte is a number in 0..255, a str a sequence of code points (all below *)
(* 0x800 here). A JSON value is a record: t its type, n the number of an    *)
(* int, s the code points of a str, items the members of a dict or a list   *)
(* in order (k the key, <<>> in a list).                                    *)

JNull == [t |-> "null", n |-> 0, s |-> <<>>, items |-> <<>>]
JBool(b) == [t |-> IF b THEN "true" ELSE "false", n |-> 0, s |-> <<>>, items |-> <<>>]
JInt(n) == [t |-> "int", n |-> n, s |-> <<>>, items |-> <<>>]
JStr(s) == [t |-> "str", n |-> 0, s |-> s, items |-> <<>>]
JObj(items) == [t |-> "dict", n |-> 0, s |-> <<>>, items |-> items]
JArr(items) == [t |-> "list", n |-> 0, s |-> <<>>, items |-> items]
Member(k, v) == [k |-> k, v |-> v]

\* the ASCII text of the literals and separators json uses
LitNull == <<110, 117, 108, 108>>
LitTrue == <<116, 114, 117, 101>>
LitFalse == <<102, 97, 108, 115, 101>>
ItemSeparator == <<44, 32>>
KeySeparator == <<58, 32>>

\* json.encoder ESCAPE_DCT: the two-character escapes
ESCAPE_DCT ==
    (92 :> 92) @@ (34 :> 34) @@ (8 :> 98) @@ (12 :> 102) @@ (10 :> 110)
    @@ (13 :> 114) @@ (9 :> 116)

\* json.decoder BACKSLASH: the character each escape letter stands for
BACKSLASH ==
    (34 :> 34) @@ (92 :> 92) @@ (47 :> 47) @@ (98 :> 8) @@ (102 :> 12)
    @@ (110 :> 10) @@ (114 :> 13) @@ (116 :> 9)

HexDigit(d) == IF d < 10 THEN 48 + d ELSE 87 + d

HexVal(c) ==
    IF c \in 48..57 THEN c - 48
    ELSE IF c \in 97..102 THEN c - 87
    ELSE IF c \in 65..70 THEN c - 55
    ELSE -1

\* '\\u{0:04x}'.format(n)
UEscape(c) ==
    <<92, 117, HexDigit(c \div 4096), HexDigit((c \div 256) % 16),
      HexDigit((c \div 16) % 16), HexDigit(c % 16)>>

RECURSIVE Digits(_)
Digits(n) == IF n < 10 THEN <<48 + n>> ELSE Digits(n \div 10) \o <<48 + (n % 10)>>

\* int.__repr__
IntRepr(n) == IF n < 0 THEN <<45>> \o Digits(-n) ELSE Digits(n)

RECURSIVE EscapeChars(_)
EscapeChars(s) ==
    IF s = <<>> THEN <<>>
    ELSE LET c == Head(s)
             e == IF c \in DOMAIN ESCAPE_DCT THEN <<92, ESCAPE_DCT[c]>>
                  ELSE IF c < 32 \/ c > 126 THEN UEscape(c)
                  ELSE <<c>>
         IN e \o EscapeChars(Tail(s))

\* json.encoder.py_encode_basestring_ascii (ensure_ascii is the default)
encode_basestring_ascii(s) == <<34>> \o EscapeChars(s) \o <<34>>

RECURSIVE dumps(_), dumps_items(_, _)
\* json.dumps with the default separators
dumps(v) ==
    CASE v.t = "null" -> LitNull
      [] v.t = "true" -> LitTrue
      [] v.t = "false" -> LitFalse
      [] v.t = "int" -> IntRepr(v.n)
      [] v.t = "str" -> encode_basestring_ascii(v.s)
      [] v.t = "dict" -> <<123>> \o dumps_items(v.items, TRUE) \o <<125>>
      [] v.t = "list" -> <<91>> \o dumps_items(v.items, FALSE) \o <<93>>

dumps_items(items, keyed) ==
    IF items = <<>> THEN <<>>
    ELSE LET m == Head(items)
             one == IF keyed
                    THEN encode_basestring_ascii(m.k) \o KeySeparator \o dumps(m.v)
                    ELSE dumps(m.v)
         IN IF Len(items) = 1 THEN one
            ELSE one \o ItemSeparator \o dumps_items(Tail(items), keyed)

RECURSIVE utf8_encode(_)
\* str.encode('utf-8')
utf8_encode(s) ==
    IF s = <<>> THEN <<>>
    ELSE LET c == Head(s)
         IN (IF c < 128 THEN <<c>> ELSE <<192 + (c \div 64), 128 + (c % 64)>>)
            \o utf8_encode(Tail(s))

RECURSIVE utf8_decode(_, _, _)
\* bytes.decode('utf-8'): ok is FALSE for UnicodeDecodeError
utf8_decode(b, i, acc) ==
    IF i > Len(b) THEN [ok |-> TRUE, s |-> acc]
    ELSE IF b[i] < 128 THEN utf8_decode(b, i + 1, Append(acc, b[i]))
    ELSE IF b[i] \in 194..223 /\ i + 1 <= Len(b) /\ b[i + 1] \in 128..191
         THEN utf8_decode(b, i + 2, Append(acc, (b[i] - 192) * 64 + (b[i + 1] - 128)))
    ELSE [ok |-> FALSE, s |-> <<>>]

\* one unsigned 32-bit field, most significant byte first
U32_BigEndian(n) ==
    <<(n \div 16777216) % 256, (n \div 65536) % 256, (n \div 256) % 256, n % 256>>

\* struct.pack('<I', n): one unsigned 32-bit field, least significant byte first
U32(n) ==
    <<n % 256, (n \div 256) % 256, (n \div 65536) % 256, (n \div 16777216) % 256>>

\* struct.unpack('<I', b)
FromU32(b) == b[1] + 256 * b[2] + 65536 * b[3] + 16777216 * b[4]

\* lines 34-39
encode_message(opcode, data) ==
    LET payload == utf8_encode(dumps(data))
        header == U32(opcode) \o U32(Len(payload))
    IN header \o payload

\* the result of a scan that raised
Fail == [ok |-> FALSE, v |-> JNull, end |-> 0]
Ok(v, end) == [ok |-> TRUE, v |-> v, end |-> end]

\* json.decoder WHITESPACE_STR
Whitespace == {32, 9, 10, 13}

RECURSIVE SkipWs(_, _)
\* WHITESPACE.match(s, i).end()
SkipWs(s, i) ==
    IF i <= Len(s) /\ s[i] \in Whitespace THEN SkipWs(s, i + 1) ELSE i

\* s[i:i+n] = lit
Has(s, i, lit) ==
    /\ i + Len(lit) - 1 <= Len(s)
    /\ SubSeq(s, i, i + Len(lit) - 1) = lit

RECURSIVE scanstring(_, _, _)
\* json.decoder.py_scanstring (strict), i the position after the opening quote
scanstring(s, i, acc) ==
    IF i > Len(s) THEN Fail
    ELSE IF s[i] = 34 THEN Ok(JStr(acc), i + 1)
    ELSE IF s[i] = 92
         THEN IF i + 1 > Len(s) THEN Fail
              ELSE IF s[i + 1] = 117
                   THEN IF i + 5 > Len(s) \/ \E k \in 2..5 : HexVal(s[i + k]) = -1
                        THEN Fail
                        ELSE scanstring(s, i + 6,
                                 Append(acc, 4096 * HexVal(s[i + 2])
                                             + 256 * HexVal(s[i + 3])
                                             + 16 * HexVal(s[i + 4])
                                             + HexVal(s[i + 5])))
              ELSE IF s[i + 1] \in DOMAIN BACKSLASH
                   THEN scanstring(s, i + 2, Append(acc, BACKSLASH[s[i + 1]]))
              ELSE Fail
    ELSE IF s[i] < 32 THEN Fail
    ELSE scanstring(s, i + 1, Append(acc, s[i]))

RECURSIVE ScanDigits(_, _, _)
ScanDigits(s, i, n) ==
    IF i <= Len(s) /\ s[i] \in 48..57
    THEN ScanDigits(s, i + 1, 10 * n + (s[i] - 48))
    ELSE [n |-> n, end |-> i]

\* json.scanner NUMBER_RE, integer part: -?(0|[1-9][0-9]*)
ScanNumber(s, i) ==
    LET neg == s[i] = 45
        j == IF neg THEN i + 1 ELSE i
    IN IF j > Len(s) \/ s[j] \notin 48..57 THEN Fail
       ELSE IF s[j] = 48 THEN Ok(JInt(0), j + 1)
       ELSE LET d == ScanDigits(s, j, 0)
            IN Ok(JInt(IF neg THEN 0 - d.n ELSE d.n), d.end)

\* dict(pairs): a repeated key keeps its place and takes the later value
Put(items, k, v) ==
    IF \E x \in 1..Len(items) : items[x].k = k
    THEN [x \in 1..Len(items) |->
             IF items[x].k = k THEN Member(k, v) ELSE items[x]]
    ELSE Append(items, Member(k, v))

RECURSIVE scan_once(_, _), JSONObject(_, _, _), JSONArray(_, _, _)
\* json.scanner.py_make_scanner._scan_once
scan_once(s, i) ==
    IF i > Len(s) THEN Fail
    ELSE CASE s[i] = 34 -> scanstring(s, i + 1, <<>>)
           [] s[i] = 123 ->
                LET j == SkipWs(s, i + 1)
                IN IF j <= Len(s) /\ s[j] = 125 THEN Ok(JObj(<<>>), j + 1)
                   ELSE JSONObject(s, j, <<>>)
           [] s[i] = 91 ->
                LET j == SkipWs(s, i + 1)
                IN IF j <= Len(s) /\ s[j] = 93 THEN Ok(JArr(<<>>), j + 1)
                   ELSE JSONArray(s, j, <<>>)
           [] s[i] = 110 -> IF Has(s, i, LitNull) THEN Ok(JNull, i + 4) ELSE Fail
           [] s[i] = 116 -> IF Has(s, i, LitTrue) THEN Ok(JBool(TRUE), i + 4) ELSE Fail
           [] s[i] = 102 -> IF Has(s, i, LitFalse) THEN Ok(JBool(FALSE), i + 5) ELSE Fail
           [] s[i] = 45 \/ s[i] \in 48..57 -> ScanNumber(s, i)
           [] OTHER -> Fail

\* json.decoder.JSONObject, i the position where a key must open
JSONObject(s, i, pairs) ==
    IF i > Len(s) \/ s[i] # 34 THEN Fail
    ELSE LET key == scanstring(s, i + 1, <<>>)
         IN IF ~key.ok THEN Fail
            ELSE LET c == SkipWs(s, key.end)
                 IN IF c > Len(s) \/ s[c] # 58 THEN Fail
                    ELSE LET value == scan_once(s, SkipWs(s, c + 1))
                         IN IF ~value.ok THEN Fail
                            ELSE LET e == SkipWs(s, value.end)
                                     now_pairs == Put(pairs, key.v.s, value.v)
                                 IN IF e > Len(s) THEN Fail
                                    ELSE IF s[e] = 125 THEN Ok(JObj(now_pairs), e + 1)
                                    ELSE IF s[e] = 44
                                         THEN JSONObject(s, SkipWs(s, e + 1), now_pairs)
                                    ELSE Fail

\* json.decoder.JSONArray, i the position where a value must start
JSONArray(s, i, values) ==
    LET value == scan_once(s, i)
    IN IF ~value.ok THEN Fail
       ELSE LET e == SkipWs(s, value.end)
                now_values == Append(values, Member(<<>>, value.v))
            IN IF e > Len(s) THEN Fail
               ELSE IF s[e] = 93 THEN Ok(JArr(now_values), e + 1)
               ELSE IF s[e] = 44 THEN JSONArray(s, SkipWs(s, e + 1), now_values)
               ELSE Fail

\* json.loads: JSONDecoder.decode, which rejects text after the value
loads(s) ==
    LET r == scan_once(s, SkipWs(s, 1))
    IN IF ~r.ok THEN Fail
       ELSE IF SkipWs(s, r.end) # Len(s) + 1 THEN Fail
       ELSE r

\* a call of decode_message that raised
Raised == [use |-> "decoded", ok |-> FALSE, opcode |-> 0, data |-> JNull]

Min(a, b) == IF a < b THEN a ELSE b

\* lines 41-46: data[:8] unpacked, data[8:8 + length] decoded and parsed
decode_message(data) ==
    IF Len(data) < 8 THEN Raised
    ELSE LET opcode == FromU32(SubSeq(data, 1, 4))
             length == FromU32(SubSeq(data, 5, 8))
             payload == utf8_decode(SubSeq(data, 9, Min(8 + length, Len(data))), 1, <<>>)
             r == loads(payload.s)
         IN IF ~payload.ok \/ ~r.ok THEN Raised
            ELSE [use |-> "decoded", ok |-> TRUE, opcode |-> opcode, data |-> r.v]

\* the opcodes of the protocol (handshake, frame, close, ping, pong)
CodecOpcodes == 0..4

\* str values: empty, a" and \ e-acute newline
Strings == {<<>>, <<97, 34>>, <<92, 233, 10>>}
Keys == {<<97>>, <<>>, <<34, 233>>}

Scalars ==
    {JNull, JBool(TRUE), JBool(FALSE), JInt(0), JInt(0 - 1205)}
    \cup {JStr(s) : s \in Strings}

Values ==
    Scalars
    \cup {JObj(<<>>), JArr(<<>>),
          JArr(<<Member(<<>>, JInt(7)), Member(<<>>, JStr(<<97, 34>>))>>),
          JObj(<<Member(<<97>>, JArr(<<>>))>>)}

\* dicts of at most MaxKeys members with distinct keys
Dicts ==
    {JObj(items) : items \in
        {m \in UNION {[1..n -> [k : Keys, v : Values]] : n \in 0..MaxKeys} :
            \A x, y \in DOMAIN m : (x # y) => (m[x].k # m[y].k)}}

\* how many bytes the caller of decode_message leaves out (-) or adds (+)
Deltas == {0 - 1, 0, 1}
ExtraByte == 88

Supplied(bytes, delta) ==
    IF delta < 0 THEN SubSeq(bytes, 1, Len(bytes) + delta)
    ELSE bytes \o [k \in 1..delta |-> ExtraByte]

InitCodec ==
    /\ CLIENT_ID = "123"
    /\ TARGET_GUILD_ID = "123"
    /\ input \in [use : {"codec"}, opcode : CodecOpcodes, data : Dicts, delta : Deltas]
    /\ output = Unused
    /\ pc = "encode"
    /\ SessionInit

\* a call encode_message(opcode, data)
Encode ==
    /\ pc = "encode"
    /\ output' = [use |-> "encoded", bytes |-> encode_message(input.opcode, input.data)]
    /\ pc' = "decode"
    /\ UNCHANGED <<CLIENT_ID, TARGET_GUILD_ID, input, discards>>
    /\ UNCHANGED <<phase, conn, closeCount, ioAfterClose, connects, writes, now,
                   timeout, response, delivery, hsDelivered, firstMatch, eofAt,
                   outcome, message, result>>

\* a call decode_message(data) on the encoded bytes, cut or extended by delta
Decode ==
    /\ pc = "decode"
    /\ output' = [decode_message(Supplied(output.bytes, input.delta))
                     EXCEPT !.use = "decoded"] @@ [bytes |-> output.bytes]
    /\ pc' = "decoded"
    /\ UNCHANGED <<CLIENT_ID, TARGET_GUILD_ID, input, discards>>
    /\ UNCHANGED <<phase, conn, closeCount, ioAfterClose, connects, writes, now,
                   timeout, response, delivery, hsDelivered, firstMatch, eofAt,
                   outcome, message, result>>

NextCodec ==
    \/ Encode
    \/ Decode

SpecCodec == InitCodec /\ [][NextCodec]_vars

DeclaredLength == FromU32(SubSeq(output.bytes, 5, 8))

\* C14: for every opcode in 0..4 and every JSON object P, the header of
\* encode_message(opcode, P) declares exactly the number of payload bytes that
\* follow it, and decode_message of these bytes gives (opcode, P) back.
C14_RoundTrip ==
    /\ (pc # "encode") => (DeclaredLength = Len(output.bytes) - 8)
    /\ (pc = "decoded" /\ input.delta = 0)
          => (/\ output.ok
              /\ output.opcode = input.opcode
              /\ output.data = input.data)

C14_Witness ==
    /\ pc = "decoded" /\ input.delta = 0 /\ input.opcode = 4
    /\ output.ok
    /\ output.data = JObj(<<Member(<<34, 233>>, JStr(<<92, 233, 10>>)),
                            Member(<<>>, JArr(<<Member(<<>>, JInt(7)),
                                                Member(<<>>, JStr(<<97, 34>>))>>))>>)

\* C15: decode_message fails whenever the number of payload bytes it is given
\* differs from the length the header declares, fewer or more, and returns no
\* value then.
C15_LengthMismatchFails ==
    (pc = "decoded" /\ Len(output.bytes) + input.delta - 8 # DeclaredLength)
        => ~output.ok

====
